---- MODULE Spec2Model ----
(***************************************************************************)
(* A model of resources-usage (src/export.go): the report driver export(), *)
(* the two aggregators handleExportDeployments() and handleStatefulSets(), *)
(* the right-sizing policy verdict() and the row formatter Service.CSV().  *)
(*                                                                         *)
(* Quantities.  A resource.Quantity is modelled by the integer the code    *)
(* reads from it: CPU by its MilliValue() (a plain integer, always far     *)
(* below 2^31 here), memory by its Value() in bytes.  Memory values reach  *)
(* 2Gi = 2^31 and the code multiplies them by 10 in int64, which is beyond *)
(* the integers TLC computes with, so an int64 byte count is kept as two   *)
(* limbs [hi, lo] standing for hi * 2^20 + lo with 0 <= lo < 2^20.         *)
(***************************************************************************)
EXTENDS Integers, Sequences, FiniteSets, TLC

VARIABLES
    \* export(), src/export.go:64-96
    pc,         \* where export() is: "start", "ns", "deploy", "sts", "returned"
    ignore,     \* cfg.IgnoreNamespaces as a set
    namespaces, \* namespaces.Items, by name
    nsIdx,      \* the index of ns in namespaces.Items
    items,      \* deploys.Items / stses.Items of the handler that is running
    services,   \* the handler's services slice
    svcIdx,     \* the handler's loop index i
    deploys,    \* what handleExportDeployments returned for ns
    out,        \* the lines written to os.Stdout
    err,        \* the error export() returns ("" is nil)
    calls,      \* history: the upstream calls made so far, with their results
    \* one workload through the aggregation of lines 110-133
    apc,        \* "input", "aggregated"
    akind,      \* the kind of the workload
    item,       \* the workload: a Deployment or a StatefulSet
    podMetrics, \* podMetrics.Items returned for its selector
    agg,        \* the Service the aggregation produced
    \* one Service through verdict() and CSV()
    vpc,        \* "snapshot", "verdict", "rendered"
    snap,       \* the Service handed to verdict()
    ret,        \* what verdict() returned
    recv,       \* the receiver CSV() was called on (Nil or a Service)
    line        \* what CSV() returned

dvars ==
    <<pc, ignore, namespaces, nsIdx, items, services, svcIdx, deploys, out, err, calls>>

avars == <<apc, akind, item, podMetrics, agg>>

vvars == <<vpc, snap, ret, recv, line>>

vars == <<dvars, avars, vvars>>

-----------------------------------------------------------------------------
(* Bounds of the model *)

MaxReplicas == 3
SmallCPU == 4
MaxNamespaces == 2
MaxContainers == 2
MaxPods == 2

-----------------------------------------------------------------------------
(* int64 byte counts as two limbs *)

MiB == 1048576

W(h, l) == [hi |-> h, lo |-> l]

WNorm(h, l) == [hi |-> h + (l \div MiB), lo |-> l % MiB]

WZero == W(0, 0)

\* g gibibytes
Gi(g) == W(1024 * g, 0)

WAdd(a, b) == WNorm(a.hi + b.hi, a.lo + b.lo)

WSub(a, b) == WNorm(a.hi - b.hi, a.lo - b.lo)

WNeg(a) == WNorm(0 - a.hi, 0 - a.lo)

WIsZero(a) == a.hi = 0 /\ a.lo = 0

WGt(a, b) == a.hi > b.hi \/ (a.hi = b.hi /\ a.lo > b.lo)

\* a * k for a >= 0 and a small k >= 0
WMul(a, k) == WNorm(a.hi * k, a.lo * k)

\* floor(a / d) for a >= 0 and a small d > 0
WDivNat(a, d) == W(a.hi \div d, ((a.hi % d) * MiB + a.lo) \div d)

\* Go's int64 a / d: the quotient truncated toward zero
WQuo(a, d) == IF a.hi < 0 THEN WNeg(WDivNat(WNeg(a), d)) ELSE WDivNat(a, d)

\* Go's int64 a / d on plain integers
Quo(a, d) == IF a < 0 THEN 0 - ((0 - a) \div d) ELSE a \div d

\* a byte count divided by 1024*1024 and rounded to nearest instead of truncated
WMiRound(a) == IF 2 * a.lo >= MiB THEN a.hi + 1 ELSE a.hi

\* Quantity.Value() / (1024*1024) for a non-negative byte count
WMi(a) == a.hi

-----------------------------------------------------------------------------
(* fmt: %v and %d of an integer, %.2f of a float64 *)

Digit(d) == SubSeq("0123456789", d + 1, d + 1)

RECURSIVE Itoa(_)
Itoa(n) ==
    IF n < 0 THEN "-" \o Itoa(0 - n)
    ELSE IF n < 10 THEN Digit(n)
    ELSE Itoa(n \div 10) \o Digit(n % 10)

\* The k in 0..max with k * all <= x < (k + 1) * all (all > 0, x >= 0).
WDivW(x, all, max) ==
    CHOOSE k \in 0..max :
        /\ ~WGt(WMul(all, k), x)
        /\ WGt(WMul(all, k + 1), x)

RECURSIVE Pow2(_)
Pow2(e) == IF e = 0 THEN 1 ELSE 2 * Pow2(e - 1)

RECURSIVE Pow2Mod(_, _)
\* 2^e modulo m
Pow2Mod(e, m) == IF e = 0 THEN 1 % m ELSE (2 * Pow2Mod(e - 1, m)) % m

\* When in / all * 100 is exactly k + 1/2 hundredths, T = (2k+1)/200, the
\* float64 arithmetic decides what %.2f prints: v = fl(fl(in / all) * 100) lies
\* below T (k hundredths), above it (k + 1), or on it (the even one of the two).
\* fl(in / all) depends on the ratio x = (2k+1)/20000 alone.  With x in
\* [2^-p, 2^(1-p)) and T in [2^e, 2^(e+1)), g = p + e is 6 or 7;
\* fl(x) = x + rho / (20000 * 2^(52+p)) with rho the signed remainder of the
\* correctly rounded division; and in units of the spacing of the doubles at T,
\* fl(x) * 100 = A + y with A an integer, y = (phi * 2^g + rho) / (200 * 2^g) and
\* phi / 200 the fractional part of T.  v is A + y rounded to the nearest
\* integer, a half to the even one.
halfRoundsUp(k) ==
    LET N   == 2 * k + 1
        D   == 20000
        p   == CHOOSE c \in 0..15 :
                    N * Pow2(c) >= D /\ (c = 0 \/ N * Pow2(c - 1) < D)
        g   == IF N * Pow2(p) >= 25600 THEN 7 ELSE 6
        rem == (N * Pow2Mod(52 + p, D)) % D
        rho == IF 2 * rem < D THEN 0 - rem ELSE D - rem
        w   == (N * Pow2Mod(52 - g + p, 400)) % 400
        phi == w % 200
        num == phi * Pow2(g) + rho
        den == 200 * Pow2(g)
        fl  == num \div den
        r2  == 2 * (num - fl * den)
        odd == ((IF w >= 200 THEN 1 ELSE 0) + fl) % 2 = 1
        rn  == IF r2 > den \/ (r2 = den /\ odd) THEN fl + 1 ELSE fl
    IN  rn * 200 > phi \/ (rn * 200 = phi /\ k % 2 = 1)

\* (float64(in) / float64(all)) * 100 in hundredths, rounded as %.2f rounds it,
\* for 0 <= in <= all, all > 0.  Away from an exact half the float64 error
\* (about 2e-14) cannot change the nearest hundredth while all < 2^37.
percentHundredths(in, all) ==
    LET x1 == WMul(in, 100)
        q1 == WDivW(x1, all, 100)
        r1 == WSub(x1, WMul(all, q1))
        x2 == WMul(r1, 100)
        q2 == WDivW(x2, all, 99)
        r2 == WSub(x2, WMul(all, q2))
        h  == q1 * 100 + q2
        twice == WMul(r2, 2)
    IN  IF WGt(twice, all) THEN h + 1
        ELSE IF twice = all /\ halfRoundsUp(h) THEN h + 1
        ELSE h

\* fmt.Sprintf("%.2f", percent(in, all)); a float64 division by zero does not
\* panic, it gives NaN (0/0) or +Inf
percent(in, all) ==
    IF WIsZero(all) THEN (IF WIsZero(in) THEN "NaN" ELSE "+Inf")
    ELSE
        LET h == percentHundredths(in, all)
        IN  Itoa(h \div 100) \o "." \o Digit((h % 100) \div 10) \o Digit(h % 10)

-----------------------------------------------------------------------------
(* Service and verdict() *)

Nil == [nil |-> TRUE]

Panic == [panic |-> "runtime error: integer divide by zero"]

NeedRemove == "Need remove"
NeedUpdate == "Need update"
Good == "Good"

\* Service{Kind, Namespace, Name}: every other field at its zero value
NewService(kind, ns, name) ==
    [Kind |-> kind, Namespace |-> ns, Name |-> name, Replicas |-> 0,
     Usage |-> [CPU |-> 0, Memory |-> WZero],
     Request |-> [CPU |-> 0, Memory |-> WZero],
     Action |-> "", Note |-> ""]

\* the surplus as the difference of the two per-replica quotients
cpuDiffPerReplica(s) == Quo(s.Request.CPU, s.Replicas) - Quo(s.Usage.CPU, s.Replicas)

\* the CPU surplus per replica, in milli-CPU
cpuDiff(s) == Quo(s.Request.CPU - s.Usage.CPU, s.Replicas)

\* the threshold met with >= where the code has >
cpuFlaggedGE(s) ==
    /\ cpuDiff(s) > 0
    /\ cpuDiff(s) >= Quo(Quo(10 * s.Request.CPU, s.Replicas), 100)

cpuFlagged(s) ==
    /\ cpuDiff(s) > 0
    /\ cpuDiff(s) > Quo(Quo(10 * s.Request.CPU, s.Replicas), 100)

cpuNote(s) ==
    "Need reduce CPU "
        \o percent(W(0, cpuDiff(s)), W(0, Quo(s.Request.CPU, s.Replicas)))
        \o "%(" \o Itoa(cpuDiff(s)) \o "m per pod)"

\* the memory surplus per replica, in bytes
memoryDiff(s) == WQuo(WSub(s.Request.Memory, s.Usage.Memory), s.Replicas)

\* both comparisons met with >= where the code has >
memoryFlaggedGE(s) ==
    /\ ~WGt(WZero, memoryDiff(s))
    /\ ~WGt(WQuo(WQuo(WMul(s.Request.Memory, 10), s.Replicas), 100), memoryDiff(s))

memoryFlagged(s) ==
    /\ WGt(memoryDiff(s), WZero)
    /\ WGt(memoryDiff(s), WQuo(WQuo(WMul(s.Request.Memory, 10), s.Replicas), 100))

memoryNote(s) ==
    "Need reduce Memory "
        \o percent(memoryDiff(s), WQuo(s.Request.Memory, s.Replicas))
        \o "%(" \o Itoa(WMi(memoryDiff(s))) \o "Mi per pod)"

\* the memory note replacing the CPU note instead of being appended to it
verdictLiveOverwrite(s) ==
    LET s1 == [s EXCEPT !.Action = Good]
        s2 == IF cpuFlagged(s1)
              THEN [s1 EXCEPT !.Action = NeedUpdate, !.Note = cpuNote(s1)]
              ELSE s1
    IN  IF memoryFlagged(s2)
        THEN [s2 EXCEPT !.Action = NeedUpdate, !.Note = memoryNote(s2)]
        ELSE s2

\* verdict() past its zero-replica guard (lines 183-200)
verdictLive(s) ==
    LET s1 == [s EXCEPT !.Action = Good]
        s2 == IF cpuFlagged(s1)
              THEN [s1 EXCEPT !.Action = NeedUpdate, !.Note = cpuNote(s1)]
              ELSE s1
    IN  IF memoryFlagged(s2)
        THEN [s2 EXCEPT !.Action = NeedUpdate,
                        !.Note = IF s2.Note # ""
                                 THEN s2.Note \o "; " \o memoryNote(s2)
                                 ELSE memoryNote(s2)]
        ELSE s2

\* verdict() without its zero-replica guard: line 185 divides by zero
verdictNoGuard(s) ==
    IF s.Replicas = 0 THEN Panic
    ELSE verdictLive(s)

verdict(s) ==
    IF s.Replicas = 0 THEN [s EXCEPT !.Action = NeedRemove]
    ELSE verdictLive(s)

-----------------------------------------------------------------------------
(* Service.CSV() *)

cpuColumn(o) ==
    IF o.Request.CPU # 0
    THEN Itoa(o.Usage.CPU) \o "m/" \o Itoa(o.Request.CPU) \o "m"
    ELSE Itoa(o.Usage.CPU) \o "m/unlimit"

memoryColumn(o) ==
    IF ~WIsZero(o.Request.Memory)
    THEN Itoa(WMi(o.Usage.Memory)) \o "Mi/" \o Itoa(WMi(o.Request.Memory)) \o "Mi"
    ELSE Itoa(WMi(o.Usage.Memory)) \o "Mi/unlimit"

CSV(o) ==
    IF o = Nil THEN ""
    ELSE o.Namespace \o "," \o o.Name \o "," \o o.Kind \o "," \o Itoa(o.Replicas)
            \o "," \o cpuColumn(o) \o "," \o memoryColumn(o)
            \o "," \o o.Action \o "," \o o.Note

-----------------------------------------------------------------------------
(* The aggregation of one workload: the loop body of handleExportDeployments() *)
(* and of handleStatefulSets() once the pod metrics are there                 *)

\* ResourceList.Cpu() and .Memory(): the declared request, zero when undeclared
Cpu(rl) == IF "cpu" \in DOMAIN rl THEN rl.cpu ELSE 0

Memory(rl) == IF "memory" \in DOMAIN rl THEN rl.memory ELSE WZero

\* for _, container := range Spec.Template.Spec.Containers { Request.Add(...) }
RECURSIVE addRequests(_, _)
addRequests(s, cs) ==
    IF cs = <<>> THEN s
    ELSE addRequests(
            [s EXCEPT !.Request.CPU = @ + Cpu(Head(cs).Requests),
                      !.Request.Memory = WAdd(@, Memory(Head(cs).Requests))],
            Tail(cs))

\* for _, container := range m.Containers { Usage.Add(...) }
RECURSIVE addContainerUsage(_, _)
addContainerUsage(s, cs) ==
    IF cs = <<>> THEN s
    ELSE addContainerUsage(
            [s EXCEPT !.Usage.CPU = @ + Cpu(Head(cs).Usage),
                      !.Usage.Memory = WAdd(@, Memory(Head(cs).Usage))],
            Tail(cs))

\* for _, m := range podMetrics.Items { ... }
RECURSIVE addUsage(_, _)
addUsage(s, pods) ==
    IF pods = <<>> THEN s
    ELSE addUsage(addContainerUsage(s, Head(pods).Containers), Tail(pods))

\* the replica count taken from the workload's spec instead of the live pods
aggregateDeclaredReplicas(kind, w, pods) ==
    verdict(addUsage(
        [addRequests(NewService(kind, w.Namespace, w.Name), w.Containers)
            EXCEPT !.Replicas = w.Replicas],
        pods))

\* lines 110-133 (150-173): the snapshot of workload w from its pod metrics
aggregate(kind, w, pods) ==
    verdict(addUsage(
        [addRequests(NewService(kind, w.Namespace, w.Name), w.Containers)
            EXCEPT !.Replicas = Len(pods)],
        pods))

-----------------------------------------------------------------------------
(* export(): the cluster it reads *)

Header ==
    "Namespace,Name,Kind,Replicas,CPU Usage/CPU Request(m),"
        \o "Memory Usage/Memory Request(Mi),Action,Note"

NamespaceNames == {"default", "app", "db"}

\* what cfg.IgnoreNamespaces may hold
IgnoreSets == {{"default"}, {"default", "db"}}

RECURSIVE SeqsUpTo(_, _)
\* the sequences over S of length at most k
SeqsUpTo(S, k) ==
    IF k = 0 THEN {<<>>}
    ELSE LET shorter == SeqsUpTo(S, k - 1)
         IN  shorter \cup {Append(q, x) : q \in shorter, x \in S}

\* what the namespace inventory may return: distinct names, any order
NamespaceListings ==
    {q \in SeqsUpTo(NamespaceNames, MaxNamespaces) :
        \A j, k \in 1..Len(q) : j # k => q[j] # q[k]}

\* a workload of namespace ns as the inventory returns it
Workload(ns, name, selectorOK, replicas, containers) ==
    [Namespace |-> ns, Name |-> name, SelectorOK |-> selectorOK,
     Replicas |-> replicas, Containers |-> containers]

Web(ns) ==
    Workload(ns, "web", TRUE, 3,
             <<[Requests |-> [cpu |-> 1000, memory |-> Gi(1)]]>>)

Api(ns) == Workload(ns, "api", TRUE, 1, <<[Requests |-> <<>>]>>)

\* a workload whose selector LabelSelectorAsMap() rejects
Bad(ns) == Workload(ns, "bad", FALSE, 1, <<[Requests |-> <<>>]>>)

\* what the workload inventory may return for ns
WorkloadListings(ns) ==
    {<<>>, <<Web(ns)>>, <<Web(ns), Api(ns)>>, <<Api(ns), Bad(ns)>>}

Pod(cpu, mem) == [Containers |-> <<[Usage |-> [cpu |-> cpu, memory |-> mem]]>>]

\* what the telemetry source may return for a selector
PodMetricsListings == {<<>>, <<Pod(250, W(512, 0)), Pod(250, W(511, 4))>>}

\* an upstream call as the history keeps it: what was asked, whether it
\* succeeded, what it returned (<<>> when it failed), and how many lines were on
\* the sink when it was made
Call(op, namespace, kind, index, ok, result, lines) ==
    [op |-> op, ns |-> namespace, kind |-> kind, idx |-> index,
     ok |-> ok, result |-> result, lines |-> lines]

\* the loop variable ns of export()
curNs == namespaces[nsIdx]

-----------------------------------------------------------------------------
(* export(): its steps, one per upstream call *)

InitExport ==
    /\ pc = "start"
    /\ ignore \in IgnoreSets
    /\ namespaces = <<>>
    /\ nsIdx = 0
    /\ items = <<>>
    /\ services = <<>>
    /\ svcIdx = 0
    /\ deploys = <<>>
    /\ out = <<>>
    /\ err = ""
    /\ calls = <<>>

Return(e) ==
    /\ pc' = "returned"
    /\ err' = e

\* lines 65-72: the header, then the namespace listing
ExportBegin ==
    /\ pc = "start"
    /\ out' = Append(out, Header)
    /\ \/ /\ calls' = Append(calls,
                     Call("namespaces", "", "", 0, FALSE, <<>>, Len(out) + 1))
          /\ Return("namespaces: list failed")
          /\ UNCHANGED <<namespaces, nsIdx>>
       \/ \E result \in NamespaceListings :
          /\ calls' = Append(calls,
                     Call("namespaces", "", "", 0, TRUE, result, Len(out) + 1))
          /\ namespaces' = result
          /\ nsIdx' = 1
          /\ pc' = "ns"
          /\ err' = err
    /\ UNCHANGED <<ignore, items, services, svcIdx, deploys>>

\* lines 74-76: continue
SkipNamespace ==
    /\ pc = "ns"
    /\ nsIdx <= Len(namespaces)
    /\ curNs \in ignore
    /\ nsIdx' = nsIdx + 1
    /\ UNCHANGED <<pc, ignore, namespaces, items, services, svcIdx, deploys,
                   out, err, calls>>

\* line 95: the loop is over
ExportReturn ==
    /\ pc = "ns"
    /\ nsIdx > Len(namespaces)
    /\ Return("")
    /\ UNCHANGED <<ignore, namespaces, nsIdx, items, services, svcIdx, deploys,
                   out, calls>>

\* a listing that fails is taken for an empty one and export() goes on
ListDeploymentsSwallowError ==
    /\ pc = "ns"
    /\ nsIdx <= Len(namespaces)
    /\ curNs \notin ignore
    /\ \/ /\ calls' = Append(calls,
                     Call("deployments", curNs, "Deployment", 0, FALSE, <<>>, Len(out)))
          /\ items' = <<>>
          /\ services' = <<>>
       \/ \E result \in WorkloadListings(curNs) :
          /\ calls' = Append(calls,
                     Call("deployments", curNs, "Deployment", 0, TRUE, result, Len(out)))
          /\ items' = result
          /\ services' = [k \in 1..Len(result) |-> NewService("", "", "")]
    /\ svcIdx' = 1
    /\ pc' = "deploy"
    /\ err' = err
    /\ UNCHANGED <<ignore, namespaces, nsIdx, deploys, out>>

\* lines 80, 99-103: handleExportDeployments() lists the deployments of ns
ListDeployments ==
    /\ pc = "ns"
    /\ nsIdx <= Len(namespaces)
    /\ curNs \notin ignore
    /\ \/ /\ calls' = Append(calls,
                     Call("deployments", curNs, "Deployment", 0, FALSE, <<>>, Len(out)))
          /\ Return("deployments: list failed")
          /\ UNCHANGED <<items, services, svcIdx>>
       \/ \E result \in WorkloadListings(curNs) :
          /\ calls' = Append(calls,
                     Call("deployments", curNs, "Deployment", 0, TRUE, result, Len(out)))
          /\ items' = result
          /\ services' = [k \in 1..Len(result) |-> NewService("", "", "")]
          /\ svcIdx' = 1
          /\ pc' = "deploy"
          /\ err' = err
    /\ UNCHANGED <<ignore, namespaces, nsIdx, deploys, out>>

\* the loop body of a handler for items[svcIdx]: the selector, the requests, the pod
\* metrics, the usage, the verdict
Aggregate(kind) ==
    /\ svcIdx <= Len(items)
    /\ IF ~items[svcIdx].SelectorOK
       THEN /\ Return("selector: invalid label selector")
            /\ UNCHANGED <<services, svcIdx, calls>>
       ELSE \/ /\ calls' = Append(calls,
                            Call("podmetrics", curNs, kind, svcIdx, FALSE, <<>>, Len(out)))
               /\ Return("podmetrics: list failed")
               /\ UNCHANGED <<services, svcIdx>>
            \/ \E result \in PodMetricsListings :
               /\ calls' = Append(calls,
                            Call("podmetrics", curNs, kind, svcIdx, TRUE, result, Len(out)))
               /\ services' =
                    [services EXCEPT ![svcIdx] = aggregate(kind, items[svcIdx], result)]
               /\ svcIdx' = svcIdx + 1
               /\ UNCHANGED <<pc, err>>
    /\ UNCHANGED <<ignore, namespaces, nsIdx, items, deploys, out>>

\* lines 105-134
AggregateDeployment ==
    /\ pc = "deploy"
    /\ Aggregate("Deployment")

\* the deployment rows written as soon as handleExportDeployments() returns
ListStatefulSetsRowsFirst ==
    /\ pc = "deploy"
    /\ svcIdx > Len(items)
    /\ deploys' = services
    /\ out' = out \o [k \in 1..Len(services) |-> CSV(services[k])]
    /\ \/ /\ calls' = Append(calls,
                     Call("statefulsets", curNs, "StatefulSets", 0, FALSE, <<>>, Len(out')))
          /\ Return("statefulsets: list failed")
          /\ UNCHANGED <<items, services, svcIdx>>
       \/ \E result \in WorkloadListings(curNs) :
          /\ calls' = Append(calls,
                     Call("statefulsets", curNs, "StatefulSets", 0, TRUE, result, Len(out')))
          /\ items' = result
          /\ services' = [k \in 1..Len(result) |-> NewService("", "", "")]
          /\ svcIdx' = 1
          /\ pc' = "sts"
          /\ err' = err
    /\ UNCHANGED <<ignore, namespaces, nsIdx>>

\* lines 135, 80, 85, 139-143: handleExportDeployments() returns its services
\* and handleStatefulSets() lists the stateful sets of ns
ListStatefulSets ==
    /\ pc = "deploy"
    /\ svcIdx > Len(items)
    /\ deploys' = services
    /\ \/ /\ calls' = Append(calls,
                     Call("statefulsets", curNs, "StatefulSets", 0, FALSE, <<>>, Len(out)))
          /\ Return("statefulsets: list failed")
          /\ UNCHANGED <<items, services, svcIdx>>
       \/ \E result \in WorkloadListings(curNs) :
          /\ calls' = Append(calls,
                     Call("statefulsets", curNs, "StatefulSets", 0, TRUE, result, Len(out)))
          /\ items' = result
          /\ services' = [k \in 1..Len(result) |-> NewService("", "", "")]
          /\ svcIdx' = 1
          /\ pc' = "sts"
          /\ err' = err
    /\ UNCHANGED <<ignore, namespaces, nsIdx, out>>

\* lines 145-174
AggregateStatefulSet ==
    /\ pc = "sts"
    /\ Aggregate("StatefulSets")

\* the stateful-set rows written before the deployment rows
WriteRowsStatefulSetsFirst ==
    /\ pc = "sts"
    /\ svcIdx > Len(items)
    /\ out' = out \o [k \in 1..Len(services) |-> CSV(services[k])]
                  \o [k \in 1..Len(deploys) |-> CSV(deploys[k])]
    /\ nsIdx' = nsIdx + 1
    /\ pc' = "ns"
    /\ UNCHANGED <<ignore, namespaces, items, services, svcIdx, deploys, err, calls>>

\* lines 175, 85, 88-93: handleStatefulSets() returns its services and the rows
\* of ns are written, the deployments first
WriteRows ==
    /\ pc = "sts"
    /\ svcIdx > Len(items)
    /\ out' = out \o [k \in 1..Len(deploys) |-> CSV(deploys[k])]
                  \o [k \in 1..Len(services) |-> CSV(services[k])]
    /\ nsIdx' = nsIdx + 1
    /\ pc' = "ns"
    /\ UNCHANGED <<ignore, namespaces, items, services, svcIdx, deploys, err, calls>>

\* the other two pipelines of the module are not running
AggregationIdle ==
    /\ apc = "idle"
    /\ akind = ""
    /\ item = Nil
    /\ podMetrics = <<>>
    /\ agg = Nil

VerdictIdle ==
    /\ vpc = "idle"
    /\ snap = Nil
    /\ ret = Nil
    /\ recv = Nil
    /\ line = ""

ExportIdle ==
    /\ pc = "idle"
    /\ ignore = {}
    /\ namespaces = <<>>
    /\ nsIdx = 0
    /\ items = <<>>
    /\ services = <<>>
    /\ svcIdx = 0
    /\ deploys = <<>>
    /\ out = <<>>
    /\ err = ""
    /\ calls = <<>>

Init == InitExport /\ AggregationIdle /\ VerdictIdle

Next ==
    \/ (ExportBegin /\ UNCHANGED <<avars, vvars>>)
    \/ (SkipNamespace /\ UNCHANGED <<avars, vvars>>)
    \/ (ExportReturn /\ UNCHANGED <<avars, vvars>>)
    \/ (ListDeployments /\ UNCHANGED <<avars, vvars>>)
    \/ (AggregateDeployment /\ UNCHANGED <<avars, vvars>>)
    \/ (ListStatefulSets /\ UNCHANGED <<avars, vvars>>)
    \/ (AggregateStatefulSet /\ UNCHANGED <<avars, vvars>>)
    \/ (WriteRows /\ UNCHANGED <<avars, vvars>>)

Spec == Init /\ [][Next]_vars

-----------------------------------------------------------------------------
(* The aggregation on one workload and one pod-metrics listing *)

ContainerRequests ==
    {[Requests |-> <<>>],
     [Requests |-> [cpu |-> 100]],
     [Requests |-> [cpu |-> 250, memory |-> W(64, 0)]]}

PodSamples ==
    {[Containers |-> <<[Usage |-> [cpu |-> 30, memory |-> W(10, 5)]]>>],
     [Containers |-> <<[Usage |-> [cpu |-> 30, memory |-> W(10, 5)]],
                       [Usage |-> [cpu |-> 7, memory |-> W(0, MiB - 3)]]>>]}

InitAggregate ==
    /\ ExportIdle
    /\ VerdictIdle
    /\ apc = "input"
    /\ akind \in {"Deployment", "StatefulSets"}
    /\ \E cs \in SeqsUpTo(ContainerRequests, MaxContainers), declared \in {1, 3} :
            item = Workload("app", "web", TRUE, declared, cs)
    /\ podMetrics \in SeqsUpTo(PodSamples, MaxPods)
    /\ agg = Nil

CallAggregate ==
    /\ apc = "input"
    /\ agg' = aggregate(akind, item, podMetrics)
    /\ apc' = "aggregated"
    /\ UNCHANGED <<akind, item, podMetrics>>

NextAggregate == CallAggregate /\ UNCHANGED <<dvars, vvars>>

SpecAggregate == InitAggregate /\ [][NextAggregate]_vars

-----------------------------------------------------------------------------
(* The verdict and formatting pipeline on one snapshot *)

CPURequests == (0..SmallCPU) \cup {1000 * r : r \in 1..MaxReplicas} \cup {2000}

CPUUsages ==
    (0..SmallCPU) \cup {900 * r : r \in 1..MaxReplicas}
                  \cup {899 * r : r \in 1..MaxReplicas} \cup {1000}

MemoryRequests == {WZero, W(0, 4), W(3, 0), Gi(1), Gi(2)}

MemoryUsages == {WZero, W(0, 3), W(2, MiB - 1), W(3, 0), Gi(1), Gi(2)}

Snapshots ==
    {[NewService("Deployment", "app", "web") EXCEPT
            !.Replicas = r,
            !.Request = [CPU |-> qc, Memory |-> qm],
            !.Usage = [CPU |-> uc, Memory |-> um]] :
        r \in 0..MaxReplicas, qc \in CPURequests, qm \in MemoryRequests,
        uc \in CPUUsages, um \in MemoryUsages}

InitVerdict ==
    /\ ExportIdle
    /\ AggregationIdle
    /\ vpc = "snapshot"
    /\ snap \in Snapshots
    /\ ret = Nil
    /\ recv = Nil
    /\ line = ""

CallVerdict ==
    /\ vpc = "snapshot"
    /\ ret' = verdict(snap)
    /\ vpc' = "verdict"
    /\ UNCHANGED <<snap, recv, line>>

CallCSV ==
    /\ vpc = "verdict"
    /\ "panic" \notin DOMAIN ret
    /\ \E o \in {ret, Nil} :
        /\ recv' = o
        /\ line' = CSV(o)
    /\ vpc' = "rendered"
    /\ UNCHANGED <<snap, ret>>

NextVerdict ==
    \/ (CallVerdict /\ UNCHANGED <<dvars, avars>>)
    \/ (CallCSV /\ UNCHANGED <<dvars, avars>>)

SpecVerdict == InitVerdict /\ [][NextVerdict]_vars

-----------------------------------------------------------------------------
(* String helpers for the properties *)

HasPrefix(s, p) == Len(s) >= Len(p) /\ SubSeq(s, 1, Len(p)) = p

Contains(s, t) ==
    \E i \in 1..(Len(s) - Len(t) + 1) : SubSeq(s, i, i + Len(t) - 1) = t

RECURSIVE SplitFrom(_, _, _)
SplitFrom(s, i, start) ==
    IF i > Len(s) THEN <<SubSeq(s, start, Len(s))>>
    ELSE IF SubSeq(s, i, i) = ","
         THEN <<SubSeq(s, start, i - 1)>> \o SplitFrom(s, i + 1, i + 1)
         ELSE SplitFrom(s, i + 1, start)

\* the comma-separated fields of a row
Fields(s) == SplitFrom(s, 1, 1)

Returned == vpc # "snapshot"

Live == Returned /\ snap.Replicas > 0

\* what the returned note says about each dimension
NoteFlagsCPU == HasPrefix(ret.Note, "Need reduce CPU ")

NoteFlagsMemory == Contains(ret.Note, "Need reduce Memory ")

-----------------------------------------------------------------------------
(* Properties of verdict() and CSV(), checked under SpecVerdict *)

\* C1: with replicas = 0 verdict() returns normally (no division by the zero
\* replica count), its action is "Need remove", its note is empty, and nothing
\* else of the snapshot changes, whatever the requested and observed values.
C1_ZeroReplicasNeedRemove ==
    (Returned /\ snap.Replicas = 0) =>
        /\ "panic" \notin DOMAIN ret
        /\ ret.Action = "Need remove"
        /\ ret.Note = ""
        /\ ret = [snap EXCEPT !.Action = "Need remove"]

C1_Witness ==
    /\ vpc = "verdict"
    /\ snap.Replicas = 0
    /\ snap.Request.CPU = 2000
    /\ snap.Request.Memory = Gi(2)
    /\ snap.Usage.CPU = 0
    /\ ret.Action = "Need remove"

\* C2 as stated: a dimension is flagged exactly when
\* S = requested/replicas - observed/replicas (two truncating divisions) has
\* S > 0 and S > 10% of requested/replicas.
C2_SurplusOfQuotients ==
    Live =>
        LET r == snap.Replicas
            S == Quo(snap.Request.CPU, r) - Quo(snap.Usage.CPU, r)
        IN  NoteFlagsCPU <=> (S > 0 /\ S > Quo(Quo(snap.Request.CPU, r), 10))

\* C2 amended: a dimension is flagged exactly when
\* S = (requested - observed)/replicas (one truncating division of the
\* difference of the totals) has S > 0 and S > 10% of requested/replicas,
\* both truncating.
C2_QuotientOfSurplus ==
    Live =>
        LET r  == snap.Replicas
            S  == Quo(snap.Request.CPU - snap.Usage.CPU, r)
            Sm == WQuo(WSub(snap.Request.Memory, snap.Usage.Memory), r)
        IN  /\ NoteFlagsCPU <=> (S > 0 /\ S > Quo(Quo(snap.Request.CPU, r), 10))
            /\ NoteFlagsMemory <=>
                    /\ WGt(Sm, WZero)
                    /\ WGt(Sm, WQuo(WQuo(snap.Request.Memory, r), 10))

\* two replicas, CPU 4m requested and 3m used in total: the quotients differ by
\* one, the quotient of the difference is zero; memory 2Gi against 1Gi is flagged
C2_Witness ==
    /\ vpc = "verdict"
    /\ snap.Replicas = 2
    /\ snap.Request.CPU = 4
    /\ snap.Usage.CPU = 3
    /\ snap.Request.Memory = Gi(2)
    /\ snap.Usage.Memory = Gi(1)
    /\ ~NoteFlagsCPU
    /\ NoteFlagsMemory

\* C3: the threshold is strict.  With 1000m requested per replica, 900m used
\* per replica (surplus exactly 10%) is not flagged on CPU, and 899m used per
\* replica (surplus 101m) is: the action is "Need update" and the note contains
\* "Need reduce CPU".
C3_StrictThreshold ==
    (Live /\ snap.Request.CPU = 1000 * snap.Replicas) =>
        /\ snap.Usage.CPU = 900 * snap.Replicas =>
                /\ ~Contains(ret.Note, "Need reduce CPU")
                /\ (ret.Action = "Need update" => NoteFlagsMemory)
        /\ snap.Usage.CPU = 899 * snap.Replicas =>
                /\ ret.Action = "Need update"
                /\ Contains(ret.Note, "Need reduce CPU")
                /\ HasPrefix(ret.Note, "Need reduce CPU 10.10%(101m per pod)")

C3_Witness ==
    /\ vpc = "verdict"
    /\ snap.Replicas = 3
    /\ snap.Request.CPU = 3000
    /\ snap.Usage.CPU = 2697
    /\ ret.Action = "Need update"
    /\ Contains(ret.Note, "Need reduce CPU")

\* C4: with replicas > 0 and nothing requested (CPU and memory both zero) the
\* verdict is Good with an empty note for every non-negative usage.
C4_NoRequestIsGood ==
    (Live /\ snap.Request.CPU = 0 /\ WIsZero(snap.Request.Memory)) =>
        /\ ret.Action = "Good"
        /\ ret.Note = ""

C4_Witness ==
    /\ vpc = "verdict"
    /\ snap.Replicas = 2
    /\ snap.Request.CPU = 0
    /\ WIsZero(snap.Request.Memory)
    /\ snap.Usage.CPU = 1000
    /\ snap.Usage.Memory = Gi(1)
    /\ ret.Action = "Good"

\* %.2f of a number of hundredths
C5_Hundredths(h) ==
    Itoa(h \div 100) \o "." \o Itoa((h % 100) \div 10) \o Itoa(h % 10)

\* what the CPU part of a note may be: surplus / per-replica-requested * 100
\* to a nearest hundredth, then the per-pod surplus in milli-CPU
C5_CPUParts(s) ==
    LET r   == s.Replicas
        S   == Quo(s.Request.CPU - s.Usage.CPU, r)
        all == Quo(s.Request.CPU, r)
        lo  == (S * 10000) \div all
    IN  {"Need reduce CPU " \o C5_Hundredths(h) \o "%(" \o Itoa(S) \o "m per pod)" :
            h \in {k \in {lo, lo + 1} :
                    /\ 2 * (S * 10000 - k * all) <= all
                    /\ 2 * (k * all - S * 10000) <= all}}

\* h hundredths is within half a hundredth of S / all * 100:
\* 2 * |10000 * S - h * all| <= all, on byte counts
C5_Nearest(h, S, all) ==
    LET x  == WMul(WMul(S, 100), 100)
        \* h * all in two factors, to stay within the limbs
        y  == WAdd(WMul(WMul(all, h \div 100), 100), WMul(all, h % 100))
        d  == WSub(x, y)
        ad == IF d.hi < 0 THEN WNeg(d) ELSE d
    IN  ~WGt(WMul(ad, 2), all)

\* the memory part of a note: the percentage, then the per-pod surplus in bytes
\* divided by 1,048,576 and truncated
C5_MemoryPart(s) ==
    LET r   == s.Replicas
        S   == WQuo(WSub(s.Request.Memory, s.Usage.Memory), r)
        all == WQuo(s.Request.Memory, r)
        h   == percentHundredths(S, all)
    IN  IF C5_Nearest(h, S, all)
        THEN "Need reduce Memory " \o C5_Hundredths(h)
                \o "%(" \o Itoa(S.hi) \o "Mi per pod)"
        ELSE "the percentage is not the nearest hundredth"

\* C5: with replicas > 0 the action is "Need update" exactly when the note
\* flags a dimension and "Good" otherwise; the note is one part per flagged
\* dimension, the CPU part first, joined by "; "; and two replicas with CPU
\* 2000m requested, 1000m used, memory 2Gi requested and used give
\* "Need update" with the note "Need reduce CPU 50.00%(500m per pod)".
C5_ActionAndNote ==
    Live =>
        LET cf == cpuFlagged(snap)
            mf == memoryFlagged(snap)
        IN  /\ ret.Action = (IF cf \/ mf THEN "Need update" ELSE "Good")
            /\ \E cpuPart \in (IF cf THEN C5_CPUParts(snap) ELSE {""}) :
                    ret.Note = cpuPart \o (IF cf /\ mf THEN "; " ELSE "")
                                \o (IF mf THEN C5_MemoryPart(snap) ELSE "")
            /\ ( /\ snap.Replicas = 2
                 /\ snap.Request.CPU = 2000 /\ snap.Usage.CPU = 1000
                 /\ snap.Request.Memory = Gi(2) /\ snap.Usage.Memory = Gi(2) )
               => ( /\ ret.Action = "Need update"
                    /\ ret.Note = "Need reduce CPU 50.00%(500m per pod)" )

\* both dimensions flagged: the CPU part, "; ", the memory part
C5_Witness ==
    /\ vpc = "verdict"
    /\ snap.Replicas = 2
    /\ snap.Request.CPU = 2000 /\ snap.Usage.CPU = 1000
    /\ snap.Request.Memory = Gi(2) /\ snap.Usage.Memory = Gi(1)
    /\ ret.Action = "Need update"
    /\ ret.Note = "Need reduce CPU 50.00%(500m per pod); "
                    \o "Need reduce Memory 50.00%(512Mi per pod)"

\* C9: column 5 of a row is "<usage>m/unlimit" exactly when the requested CPU
\* is zero and "<usage>m/<request>m" otherwise; column 6 is "<usage>Mi/unlimit"
\* exactly when the requested memory is zero and "<usage>Mi/<request>Mi"
\* otherwise, bytes divided by 1,048,576 and truncated (3,145,728 bytes is 3,
\* 3,145,727 bytes is 2); a nil receiver renders as the empty string.
C9_Columns ==
    vpc = "rendered" =>
        IF recv = Nil THEN line = ""
        ELSE
            LET f  == Fields(line)
                uc == Itoa(recv.Usage.CPU)
                um == Itoa(recv.Usage.Memory.hi)
            IN  /\ Len(f) = 8
                /\ f[4] = Itoa(recv.Replicas)
                /\ (f[5] = uc \o "m/unlimit") <=> (recv.Request.CPU = 0)
                /\ recv.Request.CPU # 0 =>
                        f[5] = uc \o "m/" \o Itoa(recv.Request.CPU) \o "m"
                /\ (f[6] = um \o "Mi/unlimit") <=> WIsZero(recv.Request.Memory)
                /\ ~WIsZero(recv.Request.Memory) =>
                        f[6] = um \o "Mi/" \o Itoa(recv.Request.Memory.hi) \o "Mi"
                /\ recv.Usage.Memory = W(3, 0) => HasPrefix(f[6], "3Mi/")
                /\ recv.Usage.Memory = W(2, MiB - 1) => HasPrefix(f[6], "2Mi/")

C9_Witness ==
    /\ vpc = "rendered"
    /\ recv # Nil
    /\ recv.Replicas = 1
    /\ recv.Request.CPU = 0
    /\ recv.Usage.CPU = 3
    /\ recv.Usage.Memory = W(3, 0)
    /\ recv.Request.Memory = W(3, 0)
    /\ line = "app,web,Deployment,1,3m/unlimit,3Mi/3Mi,Good,"

-----------------------------------------------------------------------------
(* Properties of the aggregation, checked under SpecAggregate *)

RECURSIVE SumOver(_, _)
\* the sum of f over the index set S, in no particular order
SumOver(f, S) ==
    IF S = {} THEN 0
    ELSE LET x == CHOOSE y \in S : TRUE
         IN  f[x] + SumOver(f, S \ {x})

\* the sum of a sequence of byte counts, limb by limb
SumBytes(q) ==
    WNorm(SumOver([k \in 1..Len(q) |-> q[k].hi], 1..Len(q)),
          SumOver([k \in 1..Len(q) |-> q[k].lo], 1..Len(q)))

\* the container usages of all pods of a listing, one after the other
RECURSIVE Flatten(_)
Flatten(pods) ==
    IF pods = <<>> THEN <<>>
    ELSE Head(pods).Containers \o Flatten(Tail(pods))

\* the orders a sequence can be put in
Reorderings(q) ==
    {[k \in 1..Len(q) |-> q[p[k]]] : p \in Permutations(1..Len(q))}

\* the part of a Service the aggregation fills in
Snapshot(s) ==
    <<s.Kind, s.Namespace, s.Name, s.Replicas, s.Request, s.Usage>>

\* C8: the snapshot has the sum of the declared container requests (an
\* undeclared one counting as zero), the sum of the usage of every container of
\* every pod sample, and as replicas the number of pod samples, not the declared
\* replica count; and it is the same for every order of the containers and of
\* the pod samples.
C8_Aggregation ==
    apc = "aggregated" =>
        LET cs == item.Containers
            us == Flatten(podMetrics)
        IN  /\ agg.Request.CPU =
                    SumOver([k \in 1..Len(cs) |-> Cpu(cs[k].Requests)], 1..Len(cs))
            /\ agg.Request.Memory =
                    SumBytes([k \in 1..Len(cs) |-> Memory(cs[k].Requests)])
            /\ agg.Usage.CPU =
                    SumOver([k \in 1..Len(us) |-> us[k].Usage.cpu], 1..Len(us))
            /\ agg.Usage.Memory = SumBytes([k \in 1..Len(us) |-> us[k].Usage.memory])
            /\ agg.Replicas = Len(podMetrics)
            /\ <<agg.Kind, agg.Namespace, agg.Name>> =
                    <<akind, item.Namespace, item.Name>>
            /\ \A c2 \in Reorderings(cs), p2 \in Reorderings(podMetrics) :
                    Snapshot(aggregate(akind, [item EXCEPT !.Containers = c2], p2))
                        = Snapshot(agg)

\* two different containers, one without a memory request; two pod samples
\* against three declared replicas
C8_Witness ==
    /\ apc = "aggregated"
    /\ item.Replicas = 3
    /\ item.Containers = <<[Requests |-> [cpu |-> 100]],
                           [Requests |-> [cpu |-> 250, memory |-> W(64, 0)]]>>
    /\ Len(podMetrics) = 2
    /\ Len(podMetrics[1].Containers) = 1
    /\ Len(podMetrics[2].Containers) = 2
    /\ agg.Replicas = 2
    /\ agg.Request = [CPU |-> 350, Memory |-> W(64, 0)]
    /\ agg.Usage = [CPU |-> 67, Memory |-> W(21, 7)]

-----------------------------------------------------------------------------
(* Properties of export(), checked under Spec *)

\* the result of the one call of the history that asked for this
ResultOf(op, namespace, kind, index) ==
    LET j == CHOOSE k \in 1..Len(calls) :
                /\ calls[k].op = op /\ calls[k].ns = namespace
                /\ calls[k].kind = kind /\ calls[k].idx = index
    IN  calls[j].result

\* the rows of one kind of a namespace: one per listed workload, in the order of
\* the listing, each from the pod metrics returned for that workload
KindRows(op, namespace, kind) ==
    LET listed == ResultOf(op, namespace, kind, 0)
    IN  [k \in 1..Len(listed) |->
            CSV(aggregate(kind, listed[k], ResultOf("podmetrics", namespace, kind, k)))]

NamespaceRows(namespace) ==
    KindRows("deployments", namespace, "Deployment")
        \o KindRows("statefulsets", namespace, "StatefulSets")

RECURSIVE RowsOfFirst(_)
\* the rows of the namespaces 1..k of the listing that are not ignored
RowsOfFirst(k) ==
    IF k <= 0 THEN <<>>
    ELSE RowsOfFirst(k - 1)
            \o (IF namespaces[k] \in ignore THEN <<>> ELSE NamespaceRows(namespaces[k]))

\* <<namespace, name, kind>> of a row of the sink
Identity(row) == SubSeq(Fields(row), 1, 3)

\* the identities of the workloads a listing call returned
Listed(op, namespace, kind) ==
    LET listed == ResultOf(op, namespace, kind, 0)
    IN  [k \in 1..Len(listed) |-> <<namespace, listed[k].Name, kind>>]

RECURSIVE ListedOfFirst(_)
ListedOfFirst(k) ==
    IF k <= 0 THEN <<>>
    ELSE ListedOfFirst(k - 1)
            \o (IF namespaces[k] \in ignore THEN <<>>
                ELSE Listed("deployments", namespaces[k], "Deployment")
                        \o Listed("statefulsets", namespaces[k], "StatefulSets"))

Failure == err # ""

LastCall == calls[Len(calls)]

\* C6, in every state: a failed call is the last call made and export() has
\* returned its error; an error is only ever set on return; no call is made
\* twice; and the sink holds what it held when the last call was made.
C6_StateAfterFailure ==
    /\ \A j \in 1..Len(calls) :
            ~calls[j].ok => (j = Len(calls) /\ pc = "returned" /\ Failure)
    /\ Failure => pc = "returned"
    /\ Failure => (calls # <<>> /\ Len(out) = LastCall.lines)
    /\ (Failure /\ err # "selector: invalid label selector") => ~LastCall.ok
    /\ \A j, k \in 1..Len(calls) :
            (j # k) =>
                <<calls[j].op, calls[j].ns, calls[j].kind, calls[j].idx>>
                    # <<calls[k].op, calls[k].ns, calls[k].kind, calls[k].idx>>

\* C6, in every step: the sink only grows, and once export() has returned there
\* is no further call and no further line.
C6_StepAfterFailure ==
    /\ Len(out') >= Len(out) /\ SubSeq(out', 1, Len(out)) = out
    /\ pc = "returned" => (calls' = calls /\ out' = out /\ err' = err)

\* C6: any failure of an upstream call or of a selector conversion makes
\* export() return that error at once: no further upstream call, no retry, no
\* further row, and the lines written before the failure stay on the sink.
C6_FailFast == [](C6_StateAfterFailure) /\ [][C6_StepAfterFailure]_vars

\* the pod metrics of a stateful set of the second namespace fail: the rows of
\* the first namespace are on the sink
C6_Witness ==
    /\ pc = "returned"
    /\ err = "podmetrics: list failed"
    /\ nsIdx = 2
    /\ LastCall.kind = "StatefulSets"
    /\ ~LastCall.ok
    /\ Len(out) = 5

====
